---- MODULE Spec2Model ----
(***************************************************************************)
(* NDK Tracker client core: the offline delivery queue (SyncService in     *)
(* frontend/public/sw.js), the conversation session of                     *)
(* ConversationScreen.js and the speech recognition episodes of            *)
(* SpeechService.                                                          *)
(***************************************************************************)
EXTENDS Integers, Sequences, FiniteSets, TLC

(***************************************************************************)
(* Bounds of the model.                                                    *)
(***************************************************************************)
\* payloads handed to sendOrQueue / enqueueLog in one run
MaxPayloads == 3
\* sendOrQueue calls that may be in flight at the same time
MaxSenders == 2
\* flushQueue calls that may be in flight at the same time
MaxFlushers == 2

Senders == 1..MaxSenders
Flushers == 1..MaxFlushers
Payloads == 1..MaxPayloads

\* answers the user submits in one run
MaxInputs == 2
\* saveSession calls that may be in flight at the same time
MaxSaves == 2
\* the last value of the clock at which a session may start
MaxSessions == 3

Saves == 1..MaxSaves
\* submitInput calls that can be awaiting the backend at the same time
MaxSubs == 2
Subs == 1..MaxSubs

\* listening episodes started in one run
MaxEpisodes == 2
\* result events the recognition engine delivers in one run
MaxEvents == 3

Episodes == 1..MaxEpisodes

VARIABLES
  \* ---- SyncService (sw.js) ----
  store,        \* the IndexedDB object store 'log-queue', in key order
  nextId,       \* the key generator of the store (autoIncrement)
  storeOk,      \* whether indexedDB.open succeeds
  urlKnown,     \* whether backendUrlProvider() returns a non-empty URL
  backend,      \* "flaky": a request may succeed, be rejected or fail; "stable": it succeeds
  send,         \* the sendOrQueue calls
  flush,        \* the flushQueue calls
  nextPayload,  \* the next payload the application submits
  acked,        \* payloads the backend answered with a success response
  returned,     \* payloads whose sendOrQueue call resolved
  online,       \* the listener of setupOnlineFlush: whether it is installed, whether
                \* backendUrlProvider throws, and what the last online event did
  \* ---- ConversationScreen.js ----
  sessionId,            \* useState: the id of the session
  conversationHistory,  \* useState: the turns
  isSessionActive,      \* useState
  currentPrompt,        \* useState: 0 is the opening prompt, else a question
  isProcessing,         \* useState
  sub,                  \* the submitInput calls awaiting apiService.logEntry
  voiceCb,              \* the onResult callback handed to startListening: what its
                        \* submitInput closure sees
  save,                 \* the saveSession calls awaiting apiService.saveSession
  clock,                \* Date.now()
  nextInput,            \* the next answer the user gives
  epoch,                \* the number of times the history was started afresh
  asked,                \* epochs for which the user asked to save
  accepted,             \* epochs whose save request the backend accepted
  savedOut,             \* epochs whose history was cleared on a path that saves
  confirmDone,          \* epochs whose save, confirmed in ReadyToSave, has settled
  declined,             \* epochs ended by the user's choice to discard
  \* ---- SpeechService ----
  isListening,  \* this.isListening
  engine,       \* the recognition object: "idle", "running", "stopping", "failed"
  cur,          \* the episode whose handlers are installed on the recognition object
  ep,           \* the closures of the episodes: options, timer, buffers, callbacks' record
  nEvents       \* result events delivered so far

qvars == <<store, nextId, storeOk, urlKnown, backend, send, flush, nextPayload,
           acked, returned>>

svars == <<sessionId, conversationHistory, isSessionActive, currentPrompt,
           isProcessing, sub, voiceCb, save, clock, nextInput, epoch, asked,
           accepted, savedOut, confirmDone, declined>>

pvars == <<isListening, engine, cur, ep, nEvents>>

vars == <<qvars, svars, pvars, online>>

nonQueue == <<svars, pvars, online>>
nonSession == <<qvars, pvars, online>>
nonSpeech == <<qvars, svars, online>>

(***************************************************************************)
(* SyncService: the store.                                                 *)
(***************************************************************************)
\* enqueueLog: the record handed to objectStore.add
NewEntry(key, session) == [id |-> key, session |-> session, status |-> "queued"]

\* objectStore.add with an autoIncrement key: the key is the generator's value
AddReuseKey(st, key, session) == Append(st, NewEntry(Len(st) + 1, session))
Add(st, key, session) == Append(st, NewEntry(key, session))

\* objectStore.delete(id)
DeleteHead(st, id) == IF Len(st) = 0 THEN st ELSE Tail(st)
DeleteUpTo(st, id) == SelectSeq(st, LAMBDA e : e.id > id)
Delete(st, id) == SelectSeq(st, LAMBDA e : e.id # id)

\* objectStore.getAll(): every record, in ascending key order
GetAll(st) == st

Ids(st) == {st[k].id : k \in 1..Len(st)}
Sessions(st) == {st[k].session : k \in 1..Len(st)}
IdList(st) == [k \in 1..Len(st) |-> st[k].id]

\* the outcomes of fetch: resp.ok, a response that is not ok, a rejected promise
Responses == IF backend = "stable" THEN {"ok"} ELSE {"ok", "reject", "neterr"}

\* a sendOrQueue call: its position, its argument, the outcome of its fetch and
\* its result; snap is the store when it was called, dirty whether another call
\* changed the store since
IdleSend == [pc |-> "idle", session |-> 0, resp |-> "none", result |-> "none",
             snap |-> <<>>, dirty |-> FALSE]
\* a flushQueue call: its position, the items it read, the index of the loop;
\* log is the list of its requests and their outcomes, dirty whether another
\* call changed the store since it read the items, overlap whether another
\* flush was running when it started; round is 2 for a call made right after
\* another one returned, and prev then holds, if that call got no entry
\* accepted and no other call changed the store, the queue that call read and
\* the queue it left (for such a call dirty counts from the end of that call);
\* threw whether the call rejects
IdleFlush == [pc |-> "idle", items |-> <<>>, i |-> 1, log |-> <<>>,
              dirty |-> FALSE, overlap |-> FALSE, round |-> 1, prev |-> <<>>,
              threw |-> FALSE, again |-> FALSE]

FreeSend(s) == send[s].pc = "idle"
FreeFlush(f) == flush[f].pc = "idle"
\* a call that has finished hands its result to its caller before anything else runs
Settled == /\ \A s \in Senders : send[s].pc # "done"
           /\ \A f \in Flushers : flush[f].pc # "done"
\* calls take the lowest free slot
FirstFreeSend(s) == FreeSend(s) /\ \A t \in Senders : t < s => ~FreeSend(t)
FirstFreeFlush(f) == FreeFlush(f) /\ \A g \in Flushers : g < f => ~FreeFlush(g)

\* bookkeeping: a call that changed the store is seen by every other call
SendSeen(except) ==
  [s \in Senders |->
     IF s # except /\ send[s].pc # "idle" THEN [send[s] EXCEPT !.dirty = TRUE]
     ELSE send[s]]
FlushSeen(except) ==
  [f \in Flushers |->
     IF f # except /\ flush[f].pc # "idle" THEN [flush[f] EXCEPT !.dirty = TRUE]
     ELSE flush[f]]

(***************************************************************************)
(* SyncService: sendOrQueue.                                               *)
(***************************************************************************)
\* what sendOrQueue does with the outcome of its fetch
SendOnResponseNoQueue(r) == IF r = "neterr" THEN "enqCatch" ELSE "sent"
SendOnResponseSentOnError(r) == IF r = "reject" THEN "enqTry" ELSE "sent"
SendOnResponse(r) ==
  IF r = "ok" THEN "sent" ELSE IF r = "reject" THEN "enqTry" ELSE "enqCatch"

\* the application calls sendOrQueue(session, backendUrl)
SendOrQueue(s) ==
  /\ Settled
  /\ FirstFreeSend(s)
  /\ nextPayload <= MaxPayloads
  /\ send' = [send EXCEPT ![s] = [IdleSend EXCEPT !.pc = "fetch",
                                                   !.session = nextPayload,
                                                   !.snap = store]]
  /\ nextPayload' = nextPayload + 1
  /\ UNCHANGED nonQueue
  /\ UNCHANGED <<store, nextId, storeOk, urlKnown, backend, flush, acked, returned>>

\* the fetch of sendOrQueue settles
SendFetch(s) ==
  /\ Settled
  /\ send[s].pc = "fetch"
  /\ \E r \in Responses :
       LET to == SendOnResponse(r) IN
       /\ acked' = IF r = "ok" THEN acked \cup {send[s].session} ELSE acked
       /\ IF to = "sent"
          THEN /\ send' = [send EXCEPT ![s].pc = "done", ![s].resp = r,
                                        ![s].result = "sent"]
               /\ returned' = returned \cup {send[s].session}
          ELSE /\ send' = [send EXCEPT ![s].pc = to, ![s].resp = r]
               /\ UNCHANGED returned
  /\ UNCHANGED nonQueue
  /\ UNCHANGED <<store, nextId, storeOk, urlKnown, backend, flush, nextPayload>>

\* enqueueLog rejects: in the try block the catch block takes over and calls it
\* again, in the catch block sendOrQueue rejects with the error
EnqueueFailureQueued(at) == [pc |-> "done", result |-> "queued"]
EnqueueFailure(at) ==
  IF at = "enqTry" THEN [pc |-> "enqCatch", result |-> "none"]
  ELSE [pc |-> "done", result |-> "error"]

\* await enqueueLog(session) inside sendOrQueue: in the try block after a
\* response that is not ok, or in the catch block
SendEnqueue(s) ==
  /\ Settled
  /\ send[s].pc \in {"enqTry", "enqCatch"}
  /\ IF storeOk
     THEN /\ store' = Add(store, nextId, send[s].session)
          /\ nextId' = nextId + 1
          /\ send' = [SendSeen(s) EXCEPT ![s].pc = "done", ![s].result = "queued"]
          /\ flush' = FlushSeen(0)
          /\ returned' = returned \cup {send[s].session}
     ELSE /\ send' = [send EXCEPT ![s].pc = EnqueueFailure(send[s].pc).pc,
                                   ![s].result = EnqueueFailure(send[s].pc).result]
          /\ UNCHANGED <<store, nextId, flush, returned>>
  /\ UNCHANGED nonQueue
  /\ UNCHANGED <<storeOk, urlKnown, backend, nextPayload, acked>>

\* sendOrQueue returns { status } to its caller, or rejects
SendReturn(s) ==
  /\ send[s].pc = "done"
  /\ send' = [send EXCEPT ![s] = IdleSend]
  /\ UNCHANGED nonQueue
  /\ UNCHANGED <<store, nextId, storeOk, urlKnown, backend, flush, nextPayload,
                 acked, returned>>

\* the application calls enqueueLog(session) directly
EnqueueLog ==
  /\ Settled
  /\ nextPayload <= MaxPayloads
  /\ nextPayload' = nextPayload + 1
  /\ IF storeOk
     THEN /\ store' = Add(store, nextId, nextPayload)
          /\ nextId' = nextId + 1
          /\ send' = SendSeen(0)
          /\ flush' = FlushSeen(0)
     ELSE UNCHANGED <<store, nextId, send, flush>>
  /\ UNCHANGED nonQueue
  /\ UNCHANGED <<storeOk, urlKnown, backend, acked, returned>>

(***************************************************************************)
(* SyncService: flushQueue and the online listener.                        *)
(***************************************************************************)
OtherFlushRunning(f) == \E g \in Flushers : g # f /\ ~FreeFlush(g)

\* flushQueue(backendUrl) starts: it has no guard against a running flush
StartFlush(f) == [IdleFlush EXCEPT !.pc = "get", !.overlap = OtherFlushRunning(f)]

\* handleOnline, the listener of the window's 'online' event: with a URL it
\* calls flushQueue(url)
HandleOnline(f) ==
  /\ Settled
  /\ FirstFreeFlush(f)
  /\ urlKnown
  /\ flush' = [flush EXCEPT ![f] = StartFlush(f)]
  /\ UNCHANGED nonQueue
  /\ UNCHANGED <<store, nextId, storeOk, urlKnown, backend, send, nextPayload,
                 acked, returned>>

\* whether flushQueue rejects when getQueued does: the await is outside the try
GetQueuedFailure == TRUE

\* the catch block of handleOnline: the error is ignored
HandleOnlineErrorThrows(e) == [last |-> e, escaped |-> TRUE]
HandleOnlineError(e) == [last |-> e, escaped |-> FALSE]

\* the window fires 'online': if the listener is installed handleOnline runs,
\* asks the provider for the URL and with a URL calls flushQueue(url)
OnlineEvent(f) ==
  /\ Settled
  /\ FirstFreeFlush(f)
  /\ LET did == IF ~online.installed THEN [last |-> "off", escaped |-> FALSE]
                ELSE IF online.throws THEN HandleOnlineError("provider")
                ELSE IF ~urlKnown THEN [last |-> "noUrl", escaped |-> FALSE]
                ELSE [last |-> "flush", escaped |-> FALSE] IN
     /\ online' = [online EXCEPT !.tick = ~@, !.last = did.last,
                                 !.escaped = @ \/ did.escaped]
     /\ flush' = IF did.last = "flush" THEN [flush EXCEPT ![f] = StartFlush(f)]
                 ELSE flush
  /\ UNCHANGED <<svars, pvars>>
  /\ UNCHANGED <<store, nextId, storeOk, urlKnown, backend, send, nextPayload,
                 acked, returned>>

\* the flushQueue call of handleOnline settles: a rejection is caught
HandlerReturn(f) ==
  /\ flush[f].pc = "done"
  /\ flush' = [flush EXCEPT ![f] = IdleFlush]
  /\ online' = IF flush[f].threw
               THEN [online EXCEPT !.last = HandleOnlineError("flushQueue").last,
                                   !.escaped = @ \/ HandleOnlineError("flushQueue").escaped]
               ELSE online
  /\ UNCHANGED <<svars, pvars>>
  /\ UNCHANGED <<store, nextId, storeOk, urlKnown, backend, send, nextPayload,
                 acked, returned>>

\* the teardown function returned by setupOnlineFlush: removeEventListener
Teardown ==
  /\ Settled
  /\ online.installed
  /\ online' = [online EXCEPT !.installed = FALSE]
  /\ UNCHANGED <<svars, pvars, qvars>>

\* the provider: the URL is stored or cleared by the pairing, or the lookup
\* starts to throw
UrlChanges ==
  /\ Settled
  /\ urlKnown' = ~urlKnown
  /\ UNCHANGED nonQueue
  /\ UNCHANGED <<store, nextId, storeOk, backend, send, flush, nextPayload,
                 acked, returned>>
ProviderThrows ==
  /\ Settled
  /\ ~online.throws
  /\ online' = [online EXCEPT !.throws = TRUE]
  /\ UNCHANGED <<svars, pvars, qvars>>

\* the flush issues the POST of the item at i: again records a request for a
\* payload the backend has already accepted
Requested(fl, i) ==
  IF fl.pc = "fetch" /\ fl.items[i].session \in acked
  THEN [fl EXCEPT !.again = TRUE] ELSE fl

\* const items = await getQueued()
FlushGet(f) ==
  /\ Settled
  /\ flush[f].pc = "get"
  /\ IF storeOk
     THEN LET items == GetAll(store) IN
          flush' = [flush EXCEPT ![f] = Requested(
                      [@ EXCEPT !.items = items,
                                !.dirty = IF flush[f].round = 2 THEN @ ELSE FALSE,
                                !.pc = IF Len(items) = 0 THEN "done" ELSE "fetch"], 1)]
     ELSE flush' = [flush EXCEPT ![f].pc = "done", ![f].threw = GetQueuedFailure]
  /\ UNCHANGED nonQueue
  /\ UNCHANGED <<store, nextId, storeOk, urlKnown, backend, send, nextPayload,
                 acked, returned>>

\* what the loop of flushQueue does with the outcome of the fetch of an item
FlushOnResponseSkip(r) == IF r = "ok" THEN "remove" ELSE "next"
FlushOnResponseAlways(r) == "remove"
FlushOnResponseRemoveRejected(r) == IF r = "neterr" THEN "break" ELSE "remove"
FlushOnResponsePastRejected(r) ==
  IF r = "ok" THEN "remove" ELSE IF r = "reject" THEN "next" ELSE "break"
FlushOnResponse(r) == IF r = "ok" THEN "remove" ELSE "break"

\* the position of the loop after the item at i
AfterItemStop(f, i) == "done"
AfterItem(f, i) == IF i >= Len(flush[f].items) THEN "done" ELSE "fetch"

\* the fetch of the item at flush[f].i settles
FlushFetch(f) ==
  /\ Settled
  /\ flush[f].pc = "fetch"
  /\ \E r \in Responses :
       LET item == flush[f].items[flush[f].i]
           to == FlushOnResponse(r) IN
       /\ acked' = IF r = "ok" THEN acked \cup {item.session} ELSE acked
       /\ flush' = [flush EXCEPT
                      ![f].log = Append(@, [id |-> item.id, resp |-> r]),
                      ![f].pc = IF to = "remove" THEN "remove"
                                ELSE IF to = "break" THEN "done"
                                ELSE AfterItem(f, flush[f].i),
                      ![f].i = IF to = "next" THEN @ + 1 ELSE @]
  /\ UNCHANGED nonQueue
  /\ UNCHANGED <<store, nextId, storeOk, urlKnown, backend, send, nextPayload, returned>>

\* await removeItem(item.id), then the next item
FlushRemove(f) ==
  /\ Settled
  /\ flush[f].pc = "remove"
  /\ IF storeOk
     THEN LET after == Delete(store, flush[f].items[flush[f].i].id) IN
          /\ store' = after
          /\ flush' = [(IF after # store THEN FlushSeen(f) ELSE flush) EXCEPT
                         ![f] = Requested([@ EXCEPT !.i = @ + 1,
                                                    !.pc = AfterItem(f, flush[f].i)],
                                          flush[f].i + 1)]
          /\ send' = IF after # store THEN SendSeen(0) ELSE send
     ELSE /\ flush' = [flush EXCEPT ![f].pc = "done"]
          /\ UNCHANGED <<store, send>>
  /\ UNCHANGED nonQueue
  /\ UNCHANGED <<nextId, storeOk, urlKnown, backend, nextPayload, acked, returned>>

\* no request of the log was answered with success
NoneAccepted(log) == \A k \in 1..Len(log) : log[k].resp # "ok"

\* flushQueue returns and its caller calls flushQueue again at once
FlushQueueAgain(f) ==
  /\ flush[f].pc = "done"
  /\ flush[f].round = 1
  /\ flush' = [flush EXCEPT ![f] =
                 [StartFlush(f) EXCEPT
                    !.round = 2,
                    !.prev = IF NoneAccepted(flush[f].log) /\ ~flush[f].dirty
                             THEN <<flush[f].items, store>> ELSE <<>>]]
  /\ UNCHANGED nonQueue
  /\ UNCHANGED <<store, nextId, storeOk, urlKnown, backend, send, nextPayload,
                 acked, returned>>

\* flushQueue returns to its caller
FlushReturn(f) ==
  /\ flush[f].pc = "done"
  /\ flush' = [flush EXCEPT ![f] = IdleFlush]
  /\ UNCHANGED nonQueue
  /\ UNCHANGED <<store, nextId, storeOk, urlKnown, backend, send, nextPayload,
                 acked, returned>>

(***************************************************************************)
(* The environment of SyncService.                                         *)
(***************************************************************************)
\* indexedDB.open starts to fail, and works again
StoreLost ==
  /\ Settled
  /\ storeOk
  /\ storeOk' = FALSE
  /\ UNCHANGED nonQueue
  /\ UNCHANGED <<store, nextId, urlKnown, backend, send, flush, nextPayload,
                 acked, returned>>
StoreBack ==
  /\ Settled
  /\ ~storeOk
  /\ storeOk' = TRUE
  /\ UNCHANGED nonQueue
  /\ UNCHANGED <<store, nextId, urlKnown, backend, send, flush, nextPayload,
                 acked, returned>>

\* the backend comes back for good
BackendRestored ==
  /\ Settled
  /\ backend = "flaky"
  /\ backend' = "stable"
  /\ UNCHANGED nonQueue
  /\ UNCHANGED <<store, nextId, storeOk, urlKnown, send, flush, nextPayload,
                 acked, returned>>


(***************************************************************************)
(* ConversationScreen: the session.                                        *)
(***************************************************************************)
\* the questions the backend may ask back
Questions == {1}

UserTurn(input) == [from |-> "user", message |-> input]
AppTurn(question) == [from |-> "app", message |-> question]

\* setConversationHistory(prev => [...prev, message])
ReplaceTurns(prev, message) == <<message>>
AppendTurn(prev, message) == Append(prev, message)

\* a submitInput call: its input and the session id of its closure; and, noted
\* when it was made: the prompt, the session id and the epoch of that moment and
\* whether no other call was in flight, and whether the session of its request
\* had ended by then; and how its last request ended; after is how the
\* submission before it had ended, and under which session id, if it had
NoPrevious == [outcome |-> "none", sid |-> 0]
IdleSub == [pc |-> "idle", input |-> 0, sid |-> 0, prompt |-> 0, now |-> 0,
            ep |-> 0, alone |-> TRUE, ended |-> FALSE, outcome |-> "none",
            after |-> NoPrevious]
\* a saveSession call: the session id of its request, and noted when it was
\* made: the epoch, the caller and the number of turns of the history
IdleSave == [pc |-> "idle", sid |-> 0, ep |-> 0, via |-> "none", len |-> 0]
\* no speech callback registered.  on: the speech service may still call the
\* callback; listening: the isListening state of the screen; subs: the number
\* of submissions accepted from the last listening episode; transcript: whether
\* the transcript state of the screen is a non-empty text
NoVoice == [on |-> FALSE, listening |-> FALSE, isProcessing |-> FALSE, sid |-> 0,
            subs |-> 0, transcript |-> FALSE]
\* the episode is over for the callback
Off(cb) == [NoVoice EXCEPT !.subs = cb.subs, !.transcript = cb.transcript]
\* setTranscript of a text, and setTranscript('')
TranscriptKept(cb) == cb
TranscriptCleared(cb) == [cb EXCEPT !.transcript = FALSE]
TranscriptSet(cb) == [cb EXCEPT !.transcript = TRUE]
\* one more submission of the episode was accepted
Submitted(cb) == [cb EXCEPT !.subs = @ + 1]
\* the callback after speechService.stopListening() and setIsListening(false):
\* stopListening leaves a pending silence timer of the episode in place
AfterStop(cb) == {Off(cb), [cb EXCEPT !.listening = FALSE]}

FirstFreeSave(v) ==
  /\ save[v].pc = "idle"
  /\ \A w \in Saves : w < v => save[w].pc # "idle"
FirstFreeSub(k) ==
  /\ sub[k].pc = "idle"
  /\ \A w \in Subs : w < k => sub[w].pc # "idle"

\* startNewSession: a new id from the clock, an empty history, the opening prompt
StartNewSession ==
  /\ sessionId' = clock
  /\ clock' = clock + 1
  /\ conversationHistory' = <<>>
  /\ isSessionActive' = TRUE
  /\ currentPrompt' = 0
  /\ epoch' = epoch + 1

\* saveSession(sessionData) up to its await: the request carries the session id
\* of the render that called it
CallSaveSession(v, via) ==
  /\ save' = [save EXCEPT ![v] = [pc |-> "request", sid |-> sessionId,
                                  ep |-> epoch, via |-> via,
                                  len |-> Len(conversationHistory)]]
  /\ asked' = asked \cup {epoch}

\* the guard of submitInput for a non-empty input, with the value of
\* isProcessing its closure holds
SubmitGuardNone(seenProcessing) == TRUE
SubmitGuard(seenProcessing) == ~seenProcessing

\* submitInput(input, isVoiceInput) up to its await, for a non-empty input that
\* passed the guard; the request carries the session id of the closure
Previous ==
  LET done == {w \in Subs : sub[w].pc = "idle" /\ sub[w].input > 0
                             /\ sub[w].input = nextInput - 1} IN
  IF done = {} THEN NoPrevious
  ELSE LET w == CHOOSE w \in done : TRUE IN
       [outcome |-> sub[w].outcome, sid |-> sub[w].now]

SubmitCall(k, sid) ==
  /\ isProcessing' = TRUE
  /\ conversationHistory' = AppendTurn(conversationHistory, UserTurn(nextInput))
  /\ sub' = [sub EXCEPT ![k] =
               [pc |-> "logEntry", input |-> nextInput, sid |-> sid,
                prompt |-> currentPrompt, now |-> sessionId, ep |-> epoch,
                alone |-> \A w \in Subs : sub[w].pc = "idle",
                ended |-> sid # sessionId \/ ~isSessionActive,
                outcome |-> "none", after |-> Previous]]
  /\ nextInput' = nextInput + 1

\* submitInput called by handleTextInput or by the Stop button: the handlers of
\* the current render
SubmitInput ==
  /\ SubmitGuard(isProcessing)
  /\ nextInput <= MaxInputs
  /\ \E k \in Subs : FirstFreeSub(k) /\ SubmitCall(k, sessionId)
  /\ UNCHANGED <<sessionId, isSessionActive, currentPrompt, voiceCb, save, clock,
                 epoch, asked, accepted, savedOut, confirmDone, declined>>
  /\ UNCHANGED nonSession

\* handleVoiceInput (the button is disabled while processing): stops listening,
\* or starts listening with an onResult callback that calls the submitInput of
\* this render
HandleVoiceInput ==
  /\ ~isProcessing
  /\ IF voiceCb.listening
     THEN voiceCb' \in AfterStop(voiceCb)
     ELSE voiceCb' = [on |-> TRUE, listening |-> TRUE,
                      isProcessing |-> isProcessing, sid |-> sessionId,
                      subs |-> 0, transcript |-> FALSE]
  /\ UNCHANGED <<sessionId, conversationHistory, isSessionActive, currentPrompt,
                 isProcessing, sub, save, clock, nextInput, epoch, asked, accepted,
                 savedOut, confirmDone, declined>>
  /\ UNCHANGED nonSession

\* the Stop button, shown while listening: stopListening, setIsListening(false)
\* and submitInput of the transcript shown, if there is one
StopButton ==
  /\ voiceCb.listening
  /\ \/ /\ voiceCb.transcript
        /\ SubmitGuard(isProcessing)
        /\ nextInput <= MaxInputs
        /\ \E k \in Subs : FirstFreeSub(k) /\ SubmitCall(k, sessionId)
        /\ voiceCb' \in AfterStop(Submitted(voiceCb))
     \/ /\ ~(voiceCb.transcript /\ SubmitGuard(isProcessing))
        /\ voiceCb' \in AfterStop(voiceCb)
        /\ UNCHANGED <<isProcessing, conversationHistory, sub, nextInput>>
  /\ UNCHANGED <<sessionId, isSessionActive, currentPrompt, save, clock, epoch,
                 asked, accepted, savedOut, confirmDone, declined>>
  /\ UNCHANGED nonSession

\* the speech service reports a result that is not final to the callback:
\* setTranscript(result.interim || result.final)
VoiceInterim ==
  /\ voiceCb.on
  /\ ~voiceCb.transcript
  /\ voiceCb' = TranscriptSet(voiceCb)
  /\ UNCHANGED <<sessionId, conversationHistory, isSessionActive, currentPrompt,
                 isProcessing, sub, save, clock, nextInput, epoch, asked, accepted,
                 savedOut, confirmDone, declined>>
  /\ UNCHANGED nonSession

\* the speech service reports the final result of the episode to the callback:
\* setIsListening(false) and submitInput(result.final, true)
VoiceResult ==
  /\ voiceCb.on
  /\ IF SubmitGuard(voiceCb.isProcessing) /\ nextInput <= MaxInputs
        /\ \E k \in Subs : sub[k].pc = "idle"
     THEN /\ \E k \in Subs : FirstFreeSub(k) /\ SubmitCall(k, voiceCb.sid)
          /\ voiceCb' = Off(Submitted(TranscriptSet(voiceCb)))
     ELSE /\ voiceCb' = Off(TranscriptSet(voiceCb))
          /\ UNCHANGED <<isProcessing, conversationHistory, sub, nextInput>>
  /\ UNCHANGED <<sessionId, isSessionActive, currentPrompt, save, clock, epoch,
                 asked, accepted, savedOut, confirmDone, declined>>
  /\ UNCHANGED nonSession

\* the finally block of submitInput
SubmitFinally(k, outcome) ==
  /\ isProcessing' = FALSE
  /\ voiceCb' = TranscriptCleared(voiceCb)
  /\ sub' = [sub EXCEPT ![k].pc = "idle", ![k].outcome = outcome]

\* apiService.logEntry resolves with clarification_needed and a question
LogEntryClarify(k) ==
  /\ sub[k].pc = "logEntry"
  /\ \E q \in Questions :
       /\ conversationHistory' = AppendTurn(conversationHistory, AppTurn(q))
       /\ currentPrompt' = q
  /\ SubmitFinally(k, "clarified")
  /\ UNCHANGED <<sessionId, isSessionActive, save, clock, nextInput, epoch,
                 asked, accepted, savedOut, confirmDone, declined>>
  /\ UNCHANGED nonSession

\* apiService.logEntry resolves with ready_to_save and the user confirms the
\* save: showSaveConfirmation calls saveSession
LogEntryReadySave(k, v) ==
  /\ sub[k].pc = "logEntry"
  /\ FirstFreeSave(v)
  /\ CallSaveSession(v, "confirm")
  /\ SubmitFinally(k, "ready")
  /\ UNCHANGED <<sessionId, conversationHistory, isSessionActive, currentPrompt,
                 clock, nextInput, epoch, accepted, savedOut, confirmDone, declined>>
  /\ UNCHANGED nonSession

\* ready_to_save, the user declines the save and continues the session
LogEntryContinueRestarts(k) ==
  /\ sub[k].pc = "logEntry"
  /\ clock <= MaxSessions
  /\ StartNewSession
  /\ SubmitFinally(k, "continued")
  /\ UNCHANGED <<save, nextInput, asked, accepted, savedOut, confirmDone,
                 declined>>
  /\ UNCHANGED nonSession
LogEntryReadyContinue(k) ==
  /\ sub[k].pc = "logEntry"
  /\ SubmitFinally(k, "continued")
  /\ UNCHANGED <<sessionId, conversationHistory, isSessionActive, currentPrompt,
                 save, clock, nextInput, epoch, asked, accepted, savedOut,
                 confirmDone, declined>>
  /\ UNCHANGED nonSession

\* ready_to_save, the user declines the save and discards: discardSession
LogEntryReadyDiscard(k) ==
  /\ sub[k].pc = "logEntry"
  /\ clock <= MaxSessions
  /\ StartNewSession
  /\ SubmitFinally(k, "discarded")
  /\ declined' = declined \cup {epoch}
  /\ UNCHANGED <<save, nextInput, asked, accepted, savedOut, confirmDone>>
  /\ UNCHANGED nonSession

\* apiService.logEntry rejects, or resolves with neither field: only the
\* finally block changes state
LogEntryFailResets(k) ==
  /\ sub[k].pc = "logEntry"
  /\ SubmitFinally(k, "failed")
  /\ currentPrompt' = 0
  /\ UNCHANGED <<sessionId, conversationHistory, isSessionActive, save,
                 clock, nextInput, epoch, asked, accepted, savedOut, confirmDone,
                 declined>>
  /\ UNCHANGED nonSession
LogEntryFailOrOther(k) ==
  /\ sub[k].pc = "logEntry"
  /\ SubmitFinally(k, "failed")
  /\ UNCHANGED <<sessionId, conversationHistory, isSessionActive, currentPrompt,
                 save, clock, nextInput, epoch, asked, accepted, savedOut,
                 confirmDone, declined>>
  /\ UNCHANGED nonSession

\* what saveSession does when apiService.saveSession has settled
OnSaveSettled(ok) == IF ok THEN "newSession" ELSE "alert"

\* apiService.saveSession settles: accepted by the backend, or failed
SaveSettles(v) ==
  /\ save[v].pc = "request"
  /\ \E ok \in BOOLEAN :
       /\ accepted' = IF ok THEN accepted \cup {save[v].ep} ELSE accepted
       /\ confirmDone' = IF save[v].via = "confirm"
                         THEN confirmDone \cup {save[v].ep} ELSE confirmDone
       /\ IF OnSaveSettled(ok) = "newSession"
          THEN /\ clock <= MaxSessions
               /\ StartNewSession
               /\ savedOut' = savedOut \cup {epoch}
          ELSE UNCHANGED <<sessionId, conversationHistory, isSessionActive,
                           currentPrompt, clock, epoch, savedOut>>
  /\ save' = [save EXCEPT ![v] = IdleSave]
  /\ UNCHANGED <<isProcessing, sub, voiceCb, nextInput, asked, declined>>
  /\ UNCHANGED nonSession

\* what quitSession does to the history after it offered to save
QuitHistoryKept(h) == h
QuitHistory(h) == <<>>

\* quitSession (the button is disabled while processing or listening): with an
\* active session that has turns the user is offered to save; whatever the
\* answer, the session is then reset
QuitSession ==
  /\ ~isProcessing
  /\ ~voiceCb.listening
  /\ \/ /\ isSessionActive /\ Len(conversationHistory) > 0
        /\ \E v \in Saves : FirstFreeSave(v) /\ CallSaveSession(v, "quit")
        /\ savedOut' = savedOut \cup {epoch}
        /\ UNCHANGED declined
     \/ /\ isSessionActive /\ Len(conversationHistory) > 0
        /\ declined' = declined \cup {epoch}
        /\ UNCHANGED <<save, asked, savedOut>>
     \/ /\ ~(isSessionActive /\ Len(conversationHistory) > 0)
        /\ UNCHANGED <<save, asked, savedOut, declined>>
  /\ isSessionActive' = FALSE
  /\ conversationHistory' = QuitHistory(conversationHistory)
  /\ currentPrompt' = 0
  /\ epoch' = IF conversationHistory # <<>> THEN epoch + 1 ELSE epoch
  /\ UNCHANGED <<sessionId, isProcessing, sub, voiceCb, clock, nextInput, accepted,
                 confirmDone>>
  /\ UNCHANGED nonSession

\* after the mount effect has called startNewSession
InitSession ==
  /\ sessionId = 1
  /\ clock = 2
  /\ conversationHistory = <<>>
  /\ isSessionActive = TRUE
  /\ currentPrompt = 0
  /\ isProcessing = FALSE
  /\ sub = [k \in Subs |-> IdleSub]
  /\ voiceCb = NoVoice
  /\ save = [v \in Saves |-> IdleSave]
  /\ nextInput = 1
  /\ epoch = 1
  /\ asked = {}
  /\ accepted = {}
  /\ savedOut = {}
  /\ confirmDone = {}
  /\ declined = {}

NextSession ==
  \/ SubmitInput
  \/ HandleVoiceInput
  \/ VoiceInterim
  \/ StopButton
  \/ VoiceResult
  \/ \E k \in Subs : LogEntryClarify(k)
  \/ \E k \in Subs, v \in Saves : LogEntryReadySave(k, v)
  \/ \E k \in Subs : LogEntryReadyContinue(k)
  \/ \E k \in Subs : LogEntryReadyDiscard(k)
  \/ \E k \in Subs : LogEntryFailOrOther(k)
  \/ \E v \in Saves : SaveSettles(v)
  \/ QuitSession


(***************************************************************************)
(* SpeechService: text.  A text is a sequence of characters.               *)
(***************************************************************************)
Space == " "
IsSpace(c) == c = Space

RECURSIVE TrimStart(_)
TrimStart(s) == IF s # <<>> /\ IsSpace(Head(s)) THEN TrimStart(Tail(s)) ELSE s
RECURSIVE TrimEnd(_)
TrimEnd(s) ==
  IF s # <<>> /\ IsSpace(s[Len(s)]) THEN TrimEnd(SubSeq(s, 1, Len(s) - 1)) ELSE s
\* String.prototype.trim
Trim(s) == TrimEnd(TrimStart(s))

\* the results of a result event, from event.resultIndex on
Interim(text) == [isFinal |-> FALSE, transcript |-> text]
Final(text) == [isFinal |-> TRUE, transcript |-> text]
ResultEvents ==
  { <<Interim(<<"a">>)>>,
    <<Final(<<" ", "b">>), Interim(<<"c", " ">>)>>,
    <<Final(<<" ">>)>>,
    <<Final(<<"a", " ">>), Final(<<"b">>)>>,
    <<Final(<<>>), Interim(<<>>)>> }

\* the loop of onresult: the final and the interim transcripts of the event
RECURSIVE FinalTranscript(_)
FinalTranscript(results) ==
  IF results = <<>> THEN <<>>
  ELSE (IF Head(results).isFinal THEN Head(results).transcript ELSE <<>>)
       \o FinalTranscript(Tail(results))
RECURSIVE InterimTranscript(_)
InterimTranscript(results) ==
  IF results = <<>> THEN <<>>
  ELSE (IF Head(results).isFinal THEN <<>> ELSE Head(results).transcript)
       \o InterimTranscript(Tail(results))

\* aggregatedFinal after an event with the final transcript ft
AggregateNoSeparator(agg, ft) == IF ft # <<>> THEN agg \o Trim(ft) ELSE agg
Aggregate(agg, ft) ==
  IF ft # <<>> THEN agg \o (IF agg # <<>> THEN <<Space>> ELSE <<>>) \o Trim(ft)
  ELSE agg

\* the text the silence timer takes as the final transcript
Combined(agg, lastInterim) == Trim(agg \o <<Space>> \o lastInterim)

\* the final field of the result handed to onResult by onresult
ReportedWithInterim(agg, lastInterim) == Combined(agg, lastInterim)
Reported(agg, lastInterim) == agg

\* the onResult callback of the screen: setTranscript(result.interim || result.final)
Transcript(final, interim) == IF interim # <<>> THEN interim ELSE final
\* the Stop button: finalText = (transcript || '').trim()
StopText(transcript) == Trim(transcript)

\* the isFinal field of the result handed to onResult by onresult
ResultIsFinal(opts, ft) == opts.stopOnFinal /\ Len(ft) > 0

(***************************************************************************)
(* SpeechService: startListening, stopListening and the engine's events.   *)
(***************************************************************************)
\* the options of the callers: ConversationScreen passes stopOnSilence: true and
\* stopOnFinal: false
OptionSets ==
  { [stopOnSilence |-> TRUE, stopOnFinal |-> FALSE],
    [stopOnSilence |-> TRUE, stopOnFinal |-> TRUE] }

\* the closure of an episode: its options, the pending timeouts of silenceTimer,
\* aggregatedFinal and lastInterim; and what was observed of it: the events
\* delivered to it, the calls of onResult with isFinal, of onError and of onEnd,
\* the firings of the silence timer, the text combined and the text expected at
\* the last firing, whether an event came after a firing, whether startListening
\* was called again while it was listening, whether stopListening was called for
\* it, and whether its callbacks ran after the one and its timer fired after
\* the other; whether the engine reported an error to it and the number of its
\* final results at that moment; the final field of the last result reported
NoEpisode ==
  [opts |-> [stopOnSilence |-> FALSE, stopOnFinal |-> FALSE], timers |-> 0,
   agg |-> <<>>, interim |-> <<>>, hist |-> <<>>, finals |-> 0, errors |-> 0,
   ends |-> 0, fired |-> 0, silenceText |-> <<>>, expected |-> <<>>,
   late |-> FALSE, superseded |-> FALSE, stopped |-> FALSE,
   calledAfterRestart |-> FALSE, firedAfterStop |-> FALSE,
   failed |-> FALSE, finalsAtError |-> 0, reported |-> <<>>]

\* the timeouts pending after onresult has reset the silence timer
ResetTimerNoClear(n) == n + 1
ResetTimer(n) == 1

\* recognition.stop(): a started recognition ends later, with an end event
Stopped(e) == IF e = "running" THEN "stopping" ELSE e

\* the final fragments of the events: the non-empty final transcripts
RECURSIVE Fragments(_)
Fragments(hist) ==
  IF hist = <<>> THEN <<>>
  ELSE (IF FinalTranscript(Head(hist)) # <<>>
        THEN <<Trim(FinalTranscript(Head(hist)))>> ELSE <<>>)
       \o Fragments(Tail(hist))
RECURSIVE JoinSpace(_)
JoinSpace(texts) ==
  IF texts = <<>> THEN <<>>
  ELSE IF Len(texts) = 1 THEN texts[1]
  ELSE texts[1] \o <<Space>> \o JoinSpace(Tail(texts))
\* the text an episode is to report after silence: the trimmed final fragments
\* joined by single spaces, then a space and the interim text of the last event
\* if there is one; as the text of a result, without outer white space
ExpectedText(hist) ==
  LET last == IF hist = <<>> THEN <<>> ELSE Trim(InterimTranscript(hist[Len(hist)]))
  IN Trim(JoinSpace(Fragments(hist))
          \o (IF last # <<>> THEN <<Space>> \o last ELSE <<>>))

\* startListening(onResult, onError, onEnd, options) with a supported engine
StartListening ==
  /\ cur < MaxEpisodes
  /\ \E o \in OptionSets :
       LET e == cur + 1
           stopped == IF isListening THEN Stopped(engine) ELSE engine
           throws == stopped # "idle" IN
       /\ cur' = e
       /\ engine' = IF throws THEN stopped ELSE "running"
       /\ isListening' = ~throws
       /\ ep' = [k \in Episodes |->
                  IF k = e
                  THEN [NoEpisode EXCEPT !.opts = o,
                                         !.errors = IF throws THEN 1 ELSE 0]
                  ELSE IF k = cur /\ isListening
                  THEN [ep[k] EXCEPT !.superseded = TRUE]
                  ELSE ep[k]]
  /\ UNCHANGED nEvents
  /\ UNCHANGED nonSpeech

\* stopListening() called by the user of the service
StopListening ==
  /\ isListening
  /\ engine' = Stopped(engine)
  /\ isListening' = FALSE
  /\ ep' = [ep EXCEPT ![cur].stopped = TRUE]
  /\ UNCHANGED <<cur, nEvents>>
  /\ UNCHANGED nonSpeech

\* recognition.onresult
EngineResult ==
  /\ cur > 0
  /\ engine \in {"running", "stopping"}
  /\ nEvents < MaxEvents
  /\ nEvents' = nEvents + 1
  /\ \E results \in ResultEvents :
       LET c == ep[cur]
           ft == FinalTranscript(results)
           it == InterimTranscript(results) IN
       ep' = [ep EXCEPT ![cur] =
                [c EXCEPT
                   !.agg = Aggregate(c.agg, ft),
                   !.interim = Trim(it),
                   !.reported = Reported(Aggregate(c.agg, ft), Trim(it)),
                   !.finals = IF ResultIsFinal(c.opts, ft) THEN @ + 1 ELSE @,
                   !.timers = IF c.opts.stopOnSilence THEN ResetTimer(@) ELSE @,
                   !.hist = Append(@, results),
                   !.late = @ \/ c.fired > 0]]
  /\ UNCHANGED <<isListening, engine, cur>>
  /\ UNCHANGED nonSpeech

\* the timeout of silenceTimer fires
SilenceTimer(e) ==
  /\ ep[e].timers > 0
  /\ LET c == ep[e]
         combined == Combined(c.agg, c.interim) IN
     ep' = [ep EXCEPT ![e] =
              [c EXCEPT
                 !.timers = @ - 1,
                 !.fired = @ + 1,
                 !.finals = IF combined # <<>> THEN @ + 1 ELSE @,
                 !.silenceText = combined,
                 !.reported = IF combined # <<>> THEN combined ELSE @,
                 !.expected = ExpectedText(c.hist),
                 !.ends = @ + 1,
                 !.calledAfterRestart = @ \/ c.superseded,
                 !.firedAfterStop = @ \/ c.stopped]]
  /\ engine' = IF isListening THEN Stopped(engine) ELSE engine
  /\ isListening' = FALSE
  /\ UNCHANGED <<cur, nEvents>>
  /\ UNCHANGED nonSpeech

\* clearTimeout(silenceTimer)
KeepTimer(n) == n
ClearTimer(n) == 0

\* recognition.onerror: the engine has given up, its end event follows
EngineError ==
  /\ cur > 0
  /\ engine = "running"
  /\ engine' = "failed"
  /\ isListening' = FALSE
  /\ ep' = [ep EXCEPT ![cur].timers = ClearTimer(@), ![cur].errors = @ + 1,
                      ![cur].failed = TRUE,
                      ![cur].finalsAtError = ep[cur].finals]
  /\ UNCHANGED <<cur, nEvents>>
  /\ UNCHANGED nonSpeech

\* recognition.onend
EngineEnd ==
  /\ cur > 0
  /\ engine \in {"running", "stopping", "failed"}
  /\ engine' = "idle"
  /\ isListening' = FALSE
  /\ ep' = [ep EXCEPT ![cur].timers = ClearTimer(@), ![cur].ends = @ + 1]
  /\ UNCHANGED <<cur, nEvents>>
  /\ UNCHANGED nonSpeech

InitSpeech ==
  /\ isListening = FALSE
  /\ engine = "idle"
  /\ cur = 0
  /\ ep = [e \in Episodes |-> NoEpisode]
  /\ nEvents = 0

NextSpeech ==
  \/ StartListening
  \/ StopListening
  \/ EngineResult
  \/ \E e \in Episodes : SilenceTimer(e)
  \/ EngineError
  \/ EngineEnd

InitQueueVars ==
  /\ store = <<>>
  /\ nextId = 1
  /\ storeOk = TRUE
  /\ urlKnown = TRUE
  /\ backend = "flaky"
  /\ send = [s \in Senders |-> IdleSend]
  /\ flush = [f \in Flushers |-> IdleFlush]
  /\ nextPayload = 1
  /\ acked = {}
  /\ returned = {}
  /\ online = [installed |-> TRUE, throws |-> FALSE, tick |-> FALSE,
               last |-> "none", escaped |-> FALSE]

\* the three components after construction
Init == InitQueueVars /\ InitSession /\ InitSpeech

NextQueue ==
  \/ \E s \in Senders : SendOrQueue(s)
  \/ \E s \in Senders : SendFetch(s)
  \/ \E s \in Senders : SendEnqueue(s)
  \/ \E s \in Senders : SendReturn(s)
  \/ EnqueueLog
  \/ \E f \in Flushers : HandleOnline(f)
  \/ \E f \in Flushers : FlushGet(f)
  \/ \E f \in Flushers : FlushFetch(f)
  \/ \E f \in Flushers : FlushRemove(f)
  \/ \E f \in Flushers : FlushReturn(f)

\* the delivery queue with the local store available and a backend that may
\* accept, reject or fail every request
SpecQueue == Init /\ [][NextQueue]_vars

NextQueueLive ==
  \/ \E s \in Senders : SendOrQueue(s)
  \/ \E s \in Senders : SendFetch(s)
  \/ \E s \in Senders : SendEnqueue(s)
  \/ \E s \in Senders : SendReturn(s)
  \/ \E f \in Flushers : HandleOnline(f)
  \/ \E f \in Flushers : FlushGet(f)
  \/ \E f \in Flushers : FlushFetch(f)
  \/ \E f \in Flushers : FlushRemove(f)
  \/ \E f \in Flushers : FlushReturn(f)
  \/ BackendRestored

\* the event loop runs every call to its end
FairQueue ==
  /\ \A s \in Senders : WF_vars(SendFetch(s) \/ SendEnqueue(s) \/ SendReturn(s))
  /\ \A f \in Flushers :
       WF_vars(FlushGet(f) \/ FlushFetch(f) \/ FlushRemove(f) \/ FlushReturn(f))

NextFlushTwice ==
  \/ EnqueueLog
  \/ \E f \in Flushers : HandleOnline(f)
  \/ \E f \in Flushers : FlushGet(f)
  \/ \E f \in Flushers : FlushFetch(f)
  \/ \E f \in Flushers : FlushRemove(f)
  \/ \E f \in Flushers : FlushReturn(f)
  \/ \E f \in Flushers : FlushQueueAgain(f)

\* entries enqueued and flushes, some of them called twice in succession
SpecFlushTwice == Init /\ [][NextFlushTwice]_vars

NextStore ==
  \/ \E s \in Senders : SendOrQueue(s)
  \/ \E s \in Senders : SendFetch(s)
  \/ \E s \in Senders : SendEnqueue(s)
  \/ \E s \in Senders : SendReturn(s)
  \/ EnqueueLog
  \/ \E f \in Flushers : HandleOnline(f)
  \/ \E f \in Flushers : FlushGet(f)
  \/ \E f \in Flushers : FlushFetch(f)
  \/ \E f \in Flushers : FlushRemove(f)
  \/ \E f \in Flushers : FlushReturn(f)
  \/ StoreLost
  \/ StoreBack

\* the delivery queue with a local store that may become unavailable
SpecStore == Init /\ [][NextStore]_vars

NextOnline ==
  \/ EnqueueLog
  \/ \E f \in Flushers : OnlineEvent(f)
  \/ \E f \in Flushers : FlushGet(f)
  \/ \E f \in Flushers : FlushFetch(f)
  \/ \E f \in Flushers : FlushRemove(f)
  \/ \E f \in Flushers : HandlerReturn(f)
  \/ Teardown
  \/ UrlChanges
  \/ ProviderThrows
  \/ StoreLost

\* the online listener with a provider that may know the URL, not know it or
\* throw, a store that may fail and a listener that may be removed
SpecOnline == Init /\ [][NextOnline]_vars

\* the conversation screen, its backend and its user
SpecSession == Init /\ [][NextSession]_vars

\* the speech service, its caller and the recognition engine
SpecSpeech == Init /\ [][NextSpeech]_vars

\* payloads handed to sendOrQueue, online events, and a backend that may come
\* back for good
SpecQueueLive == Init /\ [][NextQueueLive]_vars /\ FairQueue

(***************************************************************************)
(* Properties of the delivery queue.                                       *)
(***************************************************************************)
Occurrences(st, session) == Cardinality({k \in 1..Len(st) : st[k].session = session})
DistinctIds(st) == \A k, l \in 1..Len(st) : k # l => st[k].id # st[l].id

\* C1: when sendOrQueue returns after a success response the queue holds no entry
\* of its payload and, no other call having changed the queue, equals the queue
\* before the call; when it returns after a failed POST (rejection or network
\* error, store available) the queue holds exactly one entry of that payload,
\* with an id no other entry has, and, no other call having changed the queue,
\* is the queue before the call with that one entry appended
SendOrQueueContract ==
  \A s \in Senders :
    send[s].pc = "done" =>
      LET c == send[s] IN
      /\ c.resp = "ok" =>
           /\ Occurrences(store, c.session) = 0
           /\ ~c.dirty => store = c.snap
      /\ c.resp # "ok" =>
           /\ Occurrences(store, c.session) = 1
           /\ DistinctIds(store)
           /\ ~c.dirty =>
                /\ Len(store) = Len(c.snap) + 1
                /\ SubSeq(store, 1, Len(c.snap)) = c.snap
                /\ store[Len(store)].session = c.session
                /\ store[Len(store)].id \notin Ids(c.snap)

\* a sendOrQueue call returns after a rejected POST, with entries queued before
\* it and no interference: one entry was added
SendOrQueueQueuedWitness ==
  \E s \in Senders :
    /\ send[s].pc = "done" /\ send[s].resp = "reject" /\ ~send[s].dirty
    /\ Len(send[s].snap) >= 1
    /\ Len(store) = Len(send[s].snap) + 1

\* the requests of a flush that got a success response
Accepted(f) == {k \in 1..Len(flush[f].log) : flush[f].log[k].resp = "ok"}
\* the index of the first item a finished flush did not get accepted
FirstKept(f) == Cardinality(Accepted(f)) + 1

\* C2: a flushQueue run sends the entries it read in ascending id order, one
\* request per entry, without skipping; every request before its last one was
\* accepted and the accepted entries are removed; it ends after the first
\* request that was not accepted or after the last entry; and, no other call
\* having changed the queue, the queue it leaves is the entries it read from
\* the first one not accepted on
FlushStopsAtFirstFailure ==
  \A f \in Flushers :
    LET r == flush[f]
        n == Len(r.log) IN
    /\ n <= Len(r.items)
    /\ \A k \in 1..n : r.log[k].id = r.items[k].id
    /\ \A k \in 1..(Len(r.items) - 1) : r.items[k].id < r.items[k + 1].id
    /\ \A k \in 1..(n - 1) : r.log[k].resp = "ok"
    /\ \A k \in Accepted(f) :
         (r.pc = "remove" /\ k = n) \/ r.items[k].id \notin Ids(store)
    /\ (r.pc = "done" /\ n < Len(r.items)) => r.log[n].resp # "ok"
    /\ (r.pc = "done" /\ ~r.dirty) =>
         store = SubSeq(r.items, FirstKept(f), Len(r.items))

\* the scenario: A, B, C queued, A accepted and B rejected: the queue after the
\* flush is [B, C] and C was not sent
FlushABCWitness ==
  \E f \in Flushers :
    /\ flush[f].pc = "done" /\ ~flush[f].dirty
    /\ Len(flush[f].items) = 3
    /\ Len(flush[f].log) = 2
    /\ flush[f].log[1].resp = "ok" /\ flush[f].log[2].resp = "reject"
    /\ store = SubSeq(flush[f].items, 2, 3)

\* an entry leaves the queue only in a step before which the backend has
\* acknowledged its payload
RemovedOnlyIfAcked ==
  \A k \in 1..Len(store) :
    store[k].id \notin Ids(store') => store[k].session \in acked
\* an acknowledged entry is in the queue only while the flush that got the
\* acknowledgment is about to remove it
AckedAreRemoved ==
  \A k \in 1..Len(store) :
    store[k].session \in acked =>
      \E f \in Flushers :
        /\ flush[f].pc = "remove"
        /\ flush[f].items[flush[f].i].id = store[k].id

\* C3: under every interleaving of enqueueLog, sendOrQueue, flushes and online
\* events an entry disappears from the queue if and only if the backend
\* answered a POST of its payload with success
RemovedIffAcked == [][RemovedOnlyIfAcked]_vars /\ []AckedAreRemoved

\* a flush got an entry accepted and the entry is gone, while another entry,
\* not acknowledged, is still queued
RemovedIffAckedWitness ==
  /\ \E f \in Flushers : \E k \in Accepted(f) :
       flush[f].log[k].id \notin Ids(store)
  /\ \E k \in 1..Len(store) : store[k].session \notin acked

\* C4: a payload whose sendOrQueue call has resolved is acknowledged by the
\* backend or is in the queue, in every later state
NoLoss == \A p \in returned : p \in acked \/ p \in Sessions(store)

\* a payload was queued by sendOrQueue, another was queued, flushed and
\* acknowledged
NoLossWitness ==
  /\ \E p \in returned : p \notin acked /\ p \in Sessions(store)
  /\ \E p \in returned : p \in acked /\ p \notin Sessions(store)
  /\ \E f \in Flushers : flush[f].log # <<>>

\* C5: an entry that is queued when a flush started by an online event is about
\* to read the queue, the backend accepting every request from then on, is
\* eventually posted, acknowledged and removed
EventualDelivery ==
  \A p \in Payloads :
    (/\ p \in Sessions(store)
     /\ backend = "stable"
     /\ \E f \in Flushers : flush[f].pc = "get")
      ~> (p \notin Sessions(store) /\ p \in acked)

\* sendOrQueue queued a payload (its POST failed), the backend is back and an
\* online event has started a flush
EventualDeliveryWitness ==
  \E p \in returned :
    /\ p \in Sessions(store) /\ p \notin acked
    /\ backend = "stable"
    /\ \E f \in Flushers : flush[f].pc = "get"

\* C6: a flushQueue call that starts while another flush has not finished
\* sends no request (and so removes no entry)
SecondFlushIsNoOp ==
  \A f \in Flushers : flush[f].overlap => flush[f].log = <<>>

(***************************************************************************)
(* Properties of the conversation session.                                 *)
(***************************************************************************)
\* ConversationScreen hands no payload to SyncService: a session is in the
\* delivery queue only if the store holds it
EnqueuedSession(e) == e \in Sessions(store)
SaveInFlight(e) == \E v \in Saves : save[v].pc = "request" /\ save[v].ep = e

\* C7: a session the user asked to save, whose history was cleared on a path
\* that saves (the save confirmation or quit-with-save) and whose save request
\* has settled, was accepted by the backend or enqueued in the delivery queue
SavedOnlyAfterDelivery ==
  \A e \in savedOut \cap asked :
    SaveInFlight(e) \/ e \in accepted \/ EnqueuedSession(e)

\* C8: once the save confirmed in ReadyToSave has settled, the payload was
\* accepted by the backend or is in the delivery queue, and the session was
\* torn down and a new one started
ConfirmedSaveDeliversAndTearsDown ==
  \A e \in confirmDone :
    /\ e \in accepted \/ EnqueuedSession(e)
    /\ epoch > e

(***************************************************************************)
(* Properties of the listening episodes.                                   *)
(***************************************************************************)
Started(e) == e <= cur
SilenceOnly(e) ==
  Started(e) /\ ep[e].opts.stopOnSilence /\ ~ep[e].opts.stopOnFinal

SilenceTextIsJoinedFragments ==
  \A e \in Episodes :
    (Started(e) /\ ep[e].fired > 0) => ep[e].silenceText = ep[e].expected

\* two events with final fragments, then one with a final fragment and interim
\* text, then silence: the text reported holds all of them
JoinedTextWitness ==
  \E e \in Episodes :
    /\ Started(e) /\ ep[e].fired > 0
    /\ Len(Fragments(ep[e].hist)) = 3
    /\ Trim(InterimTranscript(ep[e].hist[Len(ep[e].hist)])) # <<>>
    /\ Len(ep[e].silenceText) >= 5

\* C11: once startListening was called again while an episode was listening,
\* no callback of that episode is invoked any more
NoCallbackAfterRestart ==
  \A e \in Episodes : ~ep[e].calledAfterRestart

\* C12: once stopListening was called for an episode, the silence timer of that
\* episode does not fire, so that no final result is reported for it
NoTimerAfterStop ==
  \A e \in Episodes : ~ep[e].firedAfterStop

(***************************************************************************)
(* Properties of the submissions and of the turn history.                  *)
(***************************************************************************)
InFlight == {k \in Subs : sub[k].pc = "logEntry"}

\* C13: at most one submission is in flight at any time: a submitInput call
\* made while another one is being processed appends no turn and sends no
\* request
OneSubmissionInFlight == Cardinality(InFlight) <= 1

IsPrefix(s, u) == Len(s) <= Len(u) /\ SubSeq(u, 1, Len(s)) = s
\* the step ends the session: its history is started afresh
SessionEnds == epoch' # epoch
HistoryOnlyGrows == SessionEnds \/ IsPrefix(conversationHistory, conversationHistory')

\* C14: until the session is saved, discarded or quit, every step (submit,
\* clarification, backend failure, 'continue', failed save) leaves the turns
\* recorded so far in place, unchanged and in order, and only appends
HistoryAppendOnly == [][HistoryOnlyGrows]_vars

\* a session that went through a clarification, a second submission and a
\* failed save still holds its three turns
HistoryAppendOnlyWitness ==
  /\ epoch = 1
  /\ 1 \in confirmDone /\ 1 \notin accepted
  /\ conversationHistory = <<UserTurn(1), AppTurn(1), UserTurn(2)>>

\* the last request of call k failed, the call was made with no other call in
\* flight, and since it was made no call was made and no session ended
FailedLast(k) ==
  /\ sub[k].pc = "idle" /\ sub[k].outcome = "failed"
  /\ sub[k].alone
  /\ sub[k].input = nextInput - 1
  /\ sub[k].ep = epoch

\* C15: after the backend call of a submission failed the session awaits an
\* answer again, the prompt is the one shown before the submission, the user
\* turn of the submission is the last turn of the history (no app turn was
\* appended) and the session id is the one of before
FailureKeepsTurnAndPrompt ==
  \A k \in Subs :
    FailedLast(k) =>
      /\ ~isProcessing
      /\ currentPrompt = sub[k].prompt
      /\ conversationHistory # <<>>
      /\ conversationHistory[Len(conversationHistory)] = UserTurn(sub[k].input)
      /\ sessionId = sub[k].now

\* the answer to a clarification question failed at the backend: the question
\* is still the prompt and the answer is the third turn
FailureWitness ==
  \E k \in Subs :
    /\ FailedLast(k)
    /\ sub[k].prompt \in Questions
    /\ Len(conversationHistory) = 3

\* C16: once a session has ended (by a successful save, by discard or by quit)
\* there is an active session again, and no submission is sent to the backend
\* under the id of a session that had ended when the submission was made
EndedSessionIsReplaced ==
  /\ epoch > 1 => isSessionActive
  /\ \A k \in InFlight : ~sub[k].ended

(***************************************************************************)
(* Further properties of the delivery queue.                               *)
(***************************************************************************)
\* the second of two flushQueue calls in succession has finished, no entry was
\* accepted in either and no other call changed the store
TwiceWithoutSuccess(f) ==
  /\ flush[f].pc = "done" /\ flush[f].round = 2
  /\ flush[f].prev # <<>>
  /\ NoneAccepted(flush[f].log) /\ ~flush[f].dirty

\* C17: flushQueue called twice in succession, no entry accepted in either call
\* and nothing enqueued in between, leaves the queue after the second call equal
\* (entries, order, ids) to the queue after the first call and to the queue
\* before the first call
FlushTwiceSameQueue ==
  \A f \in Flushers :
    TwiceWithoutSuccess(f) => store = flush[f].prev[2] /\ store = flush[f].prev[1]

\* two entries queued, both calls had their first request refused
FlushTwiceWitness ==
  \E f \in Flushers :
    /\ TwiceWithoutSuccess(f)
    /\ Len(store) >= 2
    /\ Len(flush[f].log) = 1

\* C18: with the store available sendOrQueue always resolves, with 'sent' if
\* and only if the backend answered with success and with 'queued' after a
\* network error and after a response that is not a success alike
SendResolvesSentOrQueued ==
  \A s \in Senders :
    send[s].pc = "done" =>
      /\ send[s].result \in {"sent", "queued"}
      /\ send[s].result = "sent" <=> send[s].resp = "ok"
      /\ send[s].resp \in {"reject", "neterr"} => send[s].result = "queued"

\* with an entry queued before and nothing accepted by the backend, a call
\* resolves with 'queued' after a network error
SendResolvesWitness ==
  \E s \in Senders :
    /\ send[s].pc = "done" /\ send[s].resp = "neterr" /\ send[s].result = "queued"
    /\ \E k \in 1..Len(store) : store[k].session < send[s].session
    /\ acked = {}

\* C19: flushQueue never rejects, whatever fails during the flush: the request,
\* the read of the queue or the removal of a delivered entry
FlushNeverRejects == \A f \in Flushers : ~flush[f].threw

\* what sendOrQueue hands to its caller matches what happened to the payload
ResultIsTrue(s) ==
  /\ send[s].result = "sent" => send[s].session \in acked
  /\ send[s].result = "queued" => send[s].session \in Sessions(store)
  /\ send[s].result = "error" =>
       /\ ~storeOk
       /\ send[s].resp \in {"reject", "neterr"}
       /\ send[s].session \notin Sessions(store)
NothingStoredWithoutStore == ~storeOk => store' = store

\* C20: while the store is unavailable nothing is added to the queue, and
\* sendOrQueue of a payload whose delivery failed rejects with the error of the
\* store: it answers 'sent' only for an accepted payload and 'queued' only for
\* a payload that is in the queue
StoreFailureReported ==
  /\ [](\A s \in Senders : send[s].pc = "done" => ResultIsTrue(s))
  /\ [][NothingStoredWithoutStore]_vars

\* with an entry in the queue and the store lost, a call whose POST was
\* refused has failed to enqueue in the try and in the catch block and rejects
StoreFailureWitness ==
  \E s \in Senders :
    /\ send[s].pc = "done" /\ send[s].result = "error" /\ send[s].resp = "reject"
    /\ store # <<>>

\* the ids of the queue ascend strictly and lie below the key generator
AscendingIds(st) == \A j, k \in 1..Len(st) : j < k => st[j].id < st[k].id
IdsInOrder == AscendingIds(store) /\ \A id \in Ids(store) : id < nextId
\* an entry added by a step gets an id that no entry had before, the generator
\* only moves forward, and a step that reads the queue gets the queue as it is
\* and leaves it alone
FreshIds ==
  /\ nextId' >= nextId
  /\ \A id \in Ids(store') \ Ids(store) : id >= nextId /\ id < nextId'
  /\ \A f \in Flushers :
       (flush[f].pc = "get" /\ flush'[f].pc # "get") =>
          store' = store /\ flush'[f].items = store

\* C21: every enqueue assigns an id greater than every id assigned before it,
\* also those of removed entries, and getQueued returns the entries that were
\* not removed in ascending id order and changes nothing
IdsNeverReused == []IdsInOrder /\ [][FreshIds]_vars

\* a sendOrQueue call made after the entry with the first id was removed has
\* enqueued its payload behind the entry that was left
IdsNeverReusedWitness ==
  \E s \in Senders :
    /\ send[s].pc = "done" /\ send[s].result = "queued"
    /\ Len(send[s].snap) = 1 /\ send[s].snap[1].id > 1
    /\ Len(store) = 2 /\ store[1] = send[s].snap[1]

\* what is left of st after removing id: the other entries, each once, in order
RemovesOnly(st, id, left) ==
  /\ Ids(left) = Ids(st) \ {id}
  /\ Len(left) = Cardinality(Ids(left))
  /\ AscendingIds(left)
  /\ \A k \in 1..Len(st) :
       st[k].id # id => \E j \in 1..Len(left) : left[j] = st[k]

\* C22: removeItem on the queue, for every id assigned so far or not yet:
\* removing an id that is not queued leaves the queue unchanged, removing an id
\* twice gives what removing it once gives, and only the entry with the id goes
RemoveItemIdempotent ==
  \A id \in 1..nextId :
    /\ id \notin Ids(store) => Delete(store, id) = store
    /\ Delete(Delete(store, id), id) = Delete(store, id)
    /\ RemovesOnly(store, id, Delete(store, id))

\* two flushes got the same entry accepted and both have removed it: the
\* second removeItem found no entry with that id and the loop went on
RemoveTwiceWitness ==
  \E f, g \in Flushers :
    /\ f # g
    /\ flush[f].pc = "fetch" /\ flush[g].pc = "fetch"
    /\ flush[f].i = 2 /\ flush[g].i = 2
    /\ flush[f].items = flush[g].items
    /\ store = Tail(flush[f].items)

(***************************************************************************)
(* Properties of the online listener.                                      *)
(***************************************************************************)
\* the step is an online event; the step starts a flush
EventStep == online'.tick # online.tick
FlushStarted == \E f \in Flushers : flush[f].pc = "idle" /\ flush'[f].pc = "get"
OnlineEventRule ==
  EventStep =>
    /\ FlushStarted <=> (online.installed /\ ~online.throws /\ urlKnown)
    /\ ~FlushStarted => flush' = flush
    /\ store' = store /\ acked' = acked

\* C23: an online event starts a flush if and only if the listener is installed
\* and the provider returns a URL at that moment; otherwise (no URL, a provider
\* that throws, the listener removed by the teardown function) nothing is sent
\* and the queue stays as it is; and no error of the provider or of the flush
\* escapes the handler
OnlineFlushContract == [](~online.escaped) /\ [][OnlineEventRule]_vars

\* entries are queued and the URL is known, but the listener was removed: the
\* online event started nothing
OnlineIgnoredWitness ==
  /\ online.last = "off"
  /\ urlKnown /\ store # <<>>
  /\ \A f \in Flushers : flush[f].pc = "idle"

(***************************************************************************)
(* Further properties of the listening episodes.                           *)
(***************************************************************************)
\* C24: in an episode started with stopOnFinal the first final fragment ends
\* the episode: no result event is reported after the one that carries it
FirstFinalEndsEpisode ==
  \A e \in Episodes :
    (Started(e) /\ ep[e].opts.stopOnFinal) =>
      \A k \in 1..(Len(ep[e].hist) - 1) : FinalTranscript(ep[e].hist[k]) = <<>>

\* C25: once the engine has reported an error to an episode, the silence timer
\* of the episode is cancelled, onError was called once, no final result is
\* reported any more, and as long as no new episode is started the service is
\* not listening and recognition is not running
ErrorStopsEpisode ==
  \A e \in Episodes :
    (Started(e) /\ ep[e].failed) =>
      /\ ep[e].timers = 0
      /\ ep[e].errors = 1
      /\ ep[e].finals = ep[e].finalsAtError
      /\ e = cur => ~isListening /\ engine \in {"failed", "idle"}

\* the engine failed after two result events, with the silence timer pending:
\* recognition has ended and nothing more was reported
ErrorWitness ==
  \E e \in Episodes :
    /\ e = cur /\ ep[e].failed
    /\ Len(ep[e].hist) = 2
    /\ ep[e].agg # <<>>
    /\ engine = "idle" /\ ep[e].ends = 1

(***************************************************************************)
(* Properties of the delivery as the backend sees it.                      *)
(***************************************************************************)
\* the payload was handed to sendOrQueue
HandedToSend(p) ==
  p \in returned \/ \E s \in Senders : send[s].pc # "idle" /\ send[s].session = p

\* C26: of two payloads handed to sendOrQueue one after the other, the backend
\* does not accept the second before it has accepted the first (payloads are
\* numbered in the order they are handed over)
AcceptedInOrder ==
  \A p1, p2 \in Payloads :
    (p1 < p2 /\ HandedToSend(p1) /\ HandedToSend(p2) /\ p2 \in acked) => p1 \in acked

\* C27: once the backend has answered the POST of a queued entry with success,
\* no flush issues a POST of that payload again
NoPostAfterSuccess == \A f \in Flushers : ~flush[f].again

\* the ids from a up to b, in order
Range(a, b) == [k \in 1..(b - a + 1) |-> a + k - 1]

\* C28: while the oldest queued entry has not been accepted by the backend, no
\* flush has sent a request for an entry behind it, no entry behind it has
\* been accepted, and every entry enqueued behind it is still in the queue
HeadOfLineBlocking ==
  (store # <<>> /\ store[1].session \notin acked) =>
    /\ \A f \in Flushers : \A k \in 1..Len(flush[f].log) :
         flush[f].log[k].id <= store[1].id
    /\ \A k \in 2..Len(store) : store[k].session \notin acked
    /\ IdList(store) = Range(store[1].id, nextId - 1)

\* the first of three entries was delivered and removed; a flush that read the
\* other two has returned after the rejection of the new head
HeadOfLineWitness ==
  \E f \in Flushers :
    /\ flush[f].pc = "done"
    /\ Len(store) = 2 /\ store[1].id = 2 /\ nextId = 4
    /\ flush[f].items = store
    /\ flush[f].log = <<[id |-> 2, resp |-> "reject"]>>
    /\ acked = {store[1].session - 1}

(***************************************************************************)
(* Further properties of the conversation.                                 *)
(***************************************************************************)
\* the step is the accepted call of submitInput that uses slot k
SubmitStep(k) == sub[k].pc = "idle" /\ sub'[k].pc = "logEntry"
\* the step is the clarification answer to the submission of slot k
ClarifyStep(k) ==
  sub[k].pc = "logEntry" /\ sub'[k].pc = "idle" /\ sub'[k].outcome = "clarified"

LastTurn(h) == h[Len(h)]

TurnRule ==
  \A k \in Subs :
    /\ SubmitStep(k) =>
         conversationHistory' = Append(conversationHistory, UserTurn(sub'[k].input))
    /\ ClarifyStep(k) =>
         /\ conversationHistory # <<>>
         /\ LastTurn(conversationHistory) = UserTurn(sub[k].input)
         /\ conversationHistory' =
              Append(conversationHistory, AppTurn(currentPrompt'))

AppTurnsFollowUserTurns ==
  \A i \in 1..Len(conversationHistory) :
    conversationHistory[i].from = "app" =>
      i > 1 /\ conversationHistory[i - 1].from = "user"

\* C29: an accepted submission appends its user turn when it is made (before
\* its request is answered); a clarification answer appends the app turn with
\* the question directly after that user turn and makes the question the
\* prompt; so every app turn of the history is immediately preceded by a user
\* turn
TurnsInCausalOrder == [][TurnRule]_vars /\ []AppTurnsFollowUserTurns

\* the step is the 'continue' choice after the ready_to_save answer to slot k
ContinueStep(k) ==
  sub[k].pc = "logEntry" /\ sub'[k].pc = "idle" /\ sub'[k].outcome = "continued"

ContinueRule ==
  \A k \in Subs :
    ContinueStep(k) =>
      /\ sessionId' = sessionId
      /\ conversationHistory' = conversationHistory
      /\ currentPrompt' = currentPrompt
      /\ isSessionActive' = isSessionActive
      /\ save' = save /\ asked' = asked
      /\ qvars' = qvars
      /\ ~isProcessing'

\* the last submission made was answered ready_to_save and continued
ContinuedLast(k) ==
  /\ sub[k].pc = "idle" /\ sub[k].outcome = "continued"
  /\ sub[k].input = nextInput - 1

\* the step is a submission by handleTextInput, the first one after the
\* continued submission of slot k
NextSubmitStep(k, j) ==
  /\ ContinuedLast(k)
  /\ sub'[j].pc = "logEntry"
  /\ sub'[j].input = sub[k].input + 1
  /\ voiceCb' = voiceCb

\* C30: the 'continue' choice changes neither the session id nor the history
\* nor the prompt, starts no save and no delivery request, and leaves the
\* screen ready; the next submission is accepted, under the session id the
\* continued one was made under if no session ended in between
ContinueKeepsSession ==
  [][/\ ContinueRule
     /\ \A k, j \in Subs :
          NextSubmitStep(k, j) =>
            /\ sub'[j].sid = sessionId
            /\ sub[k].ep = epoch => sub'[j].sid = sub[k].now
            /\ conversationHistory' =
                 Append(conversationHistory, UserTurn(sub'[j].input))]_vars

\* the first input was found ready to save and the user continued; then, with
\* no request in flight, the next input is submitted in the same session
ContinueWitness ==
  \E j \in Subs :
    /\ sub[j].pc = "logEntry" /\ sub[j].alone
    /\ sub[j].after.outcome = "continued"
    /\ sub[j].sid = sub[j].after.sid /\ sub[j].sid = sessionId
    /\ epoch = 1
    /\ Len(conversationHistory) = 2
    /\ currentPrompt = 0

\* the step ends a session by the user's choice to discard it
DiscardStep == declined' # declined

DiscardRule ==
  DiscardStep =>
    /\ conversationHistory' = <<>>
    /\ currentPrompt' = 0
    /\ save' = save /\ asked' = asked /\ accepted' = accepted
    /\ qvars' = qvars

\* C31: discarding a session (the discard choice of the save confirmation, or
\* quit with the save offer declined) empties the history and resets the
\* prompt, sends no save request and adds nothing to the delivery queue; a
\* discarded session the user never asked to save has no save request in
\* flight, is not accepted by the backend and is not in the queue
DiscardWithoutDelivery ==
  /\ [][DiscardRule]_vars
  /\ [](\A e \in declined \ asked :
          ~SaveInFlight(e) /\ e \notin accepted /\ ~EnqueuedSession(e))

\* the first session was discarded in the save confirmation, the second one
\* was quit with the save offer declined
DiscardWitness ==
  /\ declined = {1, 2} /\ asked = {}
  /\ ~isSessionActive
  /\ conversationHistory = <<>> /\ currentPrompt = 0
  /\ \E k \in Subs : sub[k].pc = "idle" /\ sub[k].after.outcome = "discarded"
  /\ store = <<>>

(***************************************************************************)
(* Further properties of the listening episodes.                           *)
(***************************************************************************)
\* the step delivers a result event to episode e
ResultStep(e) == Len(ep'[e].hist) = Len(ep[e].hist) + 1
NewEvent(e) == ep'[e].hist[Len(ep'[e].hist)]

BufferRule ==
  \A e \in Episodes :
    IF cur' = e /\ cur # e
    THEN ep'[e].agg = <<>> /\ ep'[e].interim = <<>> /\ ep'[e].hist = <<>>
    ELSE /\ IsPrefix(ep[e].agg, ep'[e].agg)
         /\ ep'[e].agg # ep[e].agg =>
              /\ ResultStep(e)
              /\ FinalTranscript(NewEvent(e)) # <<>>
              /\ ep'[e].agg = ep[e].agg
                                \o (IF ep[e].agg # <<>> THEN <<Space>> ELSE <<>>)
                                \o Trim(FinalTranscript(NewEvent(e)))
         /\ (ResultStep(e) /\ FinalTranscript(NewEvent(e)) = <<>>) =>
              ep'[e].agg = ep[e].agg

ReportedIsBuffer ==
  \A e \in Episodes :
    (ep[e].hist # <<>> /\ ep[e].fired = 0) => ep[e].reported = ep[e].agg

\* C32: within an episode the aggregated buffer changes only by appending a
\* final fragment; an event with interim text only leaves it unchanged; the
\* buffer is empty when an episode starts; and until the silence timer fires
\* the final field of the last result reported is the buffer
BufferOnlyAppendsFinals == [][BufferRule]_vars /\ []ReportedIsBuffer

\* the second episode has received an event with interim text only: its
\* buffer is empty although the first episode had aggregated a fragment
BufferWitness ==
  /\ cur = 2
  /\ ep[1].agg # <<>>
  /\ ep[2].hist = << <<Interim(<<"a">>)>> >>
  /\ ep[2].agg = <<>> /\ ep[2].interim = <<"a">>
  /\ ep[2].fired = 0

\* the speech service when the silence timer is the only thing relied upon: a
\* pending timeout fires, the engine may or may not report anything
FairSilence == WF_vars(\E e \in Episodes : SilenceTimer(e))
SpecSpeechSilence == Init /\ [][NextSpeech]_vars /\ FairSilence

Listening(e) == cur = e /\ isListening /\ ep[e].opts.stopOnSilence
\* the episode is over: it was replaced, or listening is false and onEnd was
\* called, unless the episode finished by an error or by the caller's stop
Ended(e) ==
  \/ cur # e
  \/ ~isListening /\ (ep[e].ends > 0 \/ ep[e].failed \/ ep[e].stopped)

\* C33: every episode started with stopOnSilence ends (listening is false and
\* onEnd was called) by the silence timer alone, whatever the number of
\* fragments the engine delivered, zero included
SilenceEndsEpisode == \A e \in Episodes : Listening(e) ~> Ended(e)

\* C34: one listening episode leads to at most one accepted submission: after
\* Stop has submitted the transcript the silence timer of the episode submits
\* no second user turn, and after the silence timer has submitted the final
\* result Stop does not submit again
OneSubmissionPerEpisode == voiceCb.subs <= 1

\* the transcript the screen shows for episode e
Shown(e) == Transcript(ep[e].reported, ep[e].interim)

\* C35: while an episode is listening, the text the Stop button would submit
\* is the text the silence timer would report: the final fragments aggregated
\* so far joined by spaces, plus the trailing interim text
StopTextIsSilenceText ==
  \A e \in Episodes :
    (cur = e /\ isListening /\ ep[e].fired = 0) =>
      StopText(Shown(e)) = Combined(ep[e].agg, ep[e].interim)

\* the step settles the save request of slot v
SaveSettleStep(v) == save[v].pc = "request" /\ save'[v].pc = "idle"
Turns(h) == {h[i] : i \in 1..Len(h)}
\* the user turns accepted since the save of slot v was started
AcceptedDuringSave(v) ==
  IF save[v].ep # epoch THEN {}
  ELSE {conversationHistory[i] : i \in (save[v].len + 1)..Len(conversationHistory)}
         \cap {UserTurn(n) : n \in 1..MaxInputs}

\* C36: no user turn is lost to a save started before the turn was submitted:
\* a turn accepted while a save request was in flight is still in the history
\* when the save has completed
NoTurnLostToSave ==
  [][\A v \in Saves :
       SaveSettleStep(v) => AcceptedDuringSave(v) \subseteq Turns(conversationHistory')]_vars

\* C37: for every episode onEnd is invoked at most once, whichever way the
\* episode finishes (silence timer, stopListening, engine error, the engine's
\* end event), and no result is reported to the episode after its silence
\* timer has invoked onEnd
OnEndOnce ==
  \A e \in Episodes : ep[e].ends <= 1 /\ ~ep[e].late

\* the step completes the backend call of the submission of slot k
CompletionStep(k) == sub[k].pc = "logEntry" /\ sub'[k].pc = "idle"

CompletionRule ==
  \A k \in Subs : CompletionStep(k) => ~isProcessing' /\ ~voiceCb'.transcript

\* C38: when the backend call of a submission resolves (clarification,
\* ready_to_save, any other response) or rejects, the processing flag is reset
\* and the transcript cleared; the flag is never true with no call in flight;
\* and with the flag reset a submission is accepted
ProcessingAlwaysReset ==
  /\ [][CompletionRule]_vars
  /\ [](isProcessing => InFlight # {})
  /\ []((~isProcessing /\ nextInput <= MaxInputs) => ENABLED SubmitInput)

\* the backend call of the first submission failed while the screen was
\* listening; the next submission was accepted and is in flight
ProcessingResetWitness ==
  \E k \in Subs :
    /\ sub[k].pc = "logEntry" /\ sub[k].alone
    /\ sub[k].after.outcome = "failed"
    /\ isProcessing
    /\ Len(conversationHistory) = 2
    /\ voiceCb.on /\ ~voiceCb.transcript

====
